---- MODULE Spec2Model ----
(***************************************************************************)
(* Offline-first synchronisation of fale-com-a-dinda: the local store of   *)
(* entity collections, the persisted mutation queue, the entity services   *)
(* (medicamento, ministra, dica, faq, interacao) and the SyncService pass   *)
(* (upload of the queue, then download and merge).                         *)
(*                                                                         *)
(* Encodings.  A local record is a function from field names to values     *)
(* (a JS object); object spread is Spread.  serverId and serverUpdatedAt   *)
(* hold Null (-1), Undefined (-2) or a number; a JS value is truthy when    *)
(* it is a number above 0 (serverId) or a timestamp (any clock value).     *)
(* Timestamps are readings of the local clock `clock` (now()) or times     *)
(* stamped by the server, both in 0..MaxClock.  uuids are allocated from a *)
(* counter, so the insertion order of a collection object (the order of    *)
(* Object.values) is the ascending order of its uuids.                     *)
(***************************************************************************)
EXTENDS Integers, Sequences, FiniteSets, TLC

\* ---------------------------------------------------------------- bounds
MaxUuid == 2
MaxQid == 3
MaxClock == 1
MaxServerId == 2

\* ------------------------------------------------------- program constants
maxRetries == 3

Null == -1
Undefined == -2

SYNCED == "synced"
PENDING_CREATE == "pending_create"
PENDING_UPDATE == "pending_update"
PENDING_DELETE == "pending_delete"
CONFLICT == "conflict"

SyncStatus == {SYNCED, PENDING_CREATE, PENDING_UPDATE, PENDING_DELETE, CONFLICT}

Kinds == {"medicamento", "ministra", "dica", "faq", "interacao"}
OfflineKinds == {"medicamento", "dica"}

UUIDs == 1..MaxUuid
ServerIds == 1..MaxServerId
Times == 0..MaxClock
Vals == {"a", "b"}
RemoteVals == {"r"}

\* Domain fields of each entity kind (the fields a DTO may carry).
DomainFields(k) ==
    CASE k = "medicamento" -> {"nome", "classe"}
      [] k = "ministra"    -> {"horario"}
      [] k = "dica"        -> {"texto"}
      [] k = "faq"         -> {"pergunta"}
      [] k = "interacao"   -> {"descricao"}

\* ------------------------------------------------------------ JS helpers
Truthy(x) == x > 0

\* { ...a, ...b }
Spread(a, b) ==
    [f \in (DOMAIN a) \cup (DOMAIN b) |-> IF f \in DOMAIN b THEN b[f] ELSE a[f]]

\* The restriction of an object to some of its fields.
Pick(r, fs) == [f \in fs |-> r[f]]

Min(S) == CHOOSE x \in S : \A y \in S : x <= y
Max(S) == CHOOSE x \in S : \A y \in S : x >= y

\* Object.values(collection): the records in insertion order.
RECURSIVE ValuesFrom(_, _)
ValuesFrom(coll, ids) ==
    IF ids = {} THEN <<>>
    ELSE LET u == Min(ids) IN <<coll[u]>> \o ValuesFrom(coll, ids \ {u})

ObjectValues(coll) == ValuesFrom(coll, DOMAIN coll)

\* array.find(pred) with a predicate that no record satisfies.
FindNothing(coll, sid) == Null

\* array.find(pred) over Object.values: the first record with that serverId.
FindByServerId(coll, sid) ==
    LET hits == {u \in DOMAIN coll : coll[u].serverId = sid}
    IN IF hits = {} THEN Null ELSE Min(hits)

\* -------------------------------------------------------- local.models
\* A base model whose uuid does not come from the generator.
createBaseModelFixed(uuid, syncStatus, ts) ==
    [uuid |-> 1, serverId |-> Null, syncStatus |-> syncStatus,
     createdAt |-> ts, updatedAt |-> ts, serverUpdatedAt |-> Null,
     deletedLocally |-> FALSE]

\* syncedAt is written and never read; it is left out.
createBaseModel(uuid, syncStatus, ts) ==
    [uuid |-> uuid, serverId |-> Null, syncStatus |-> syncStatus,
     createdAt |-> ts, updatedAt |-> ts, serverUpdatedAt |-> Null,
     deletedLocally |-> FALSE]

markAsDeleted(model, ts) ==
    Spread(model, [syncStatus |-> PENDING_DELETE, deletedLocally |-> TRUE,
                   updatedAt |-> ts])

markAsSynced(model, serverId, ts) ==
    Spread(model, [serverId |-> serverId, syncStatus |-> SYNCED,
                   serverUpdatedAt |-> ts])

markAsUpdated(model, ts) ==
    Spread(model, [syncStatus |-> IF Truthy(model.serverId)
                                  THEN PENDING_UPDATE ELSE PENDING_CREATE,
                   updatedAt |-> ts])

\* ------------------------------------------------------------- storage
\* collection[itemId] = item
setInCollection(coll, itemId, item) ==
    [u \in (DOMAIN coll) \cup {itemId} |-> IF u = itemId THEN item ELSE coll[u]]

\* A removal that deletes nothing.
keepInCollection(coll, itemId) == coll

\* delete collection[itemId]
removeFromCollection(coll, itemId) ==
    [u \in (DOMAIN coll) \ {itemId} |-> coll[u]]

\* queue.unshift(item): the entry goes to the front.
addToSyncQueueFront(q, item) == <<item>> \o q

\* queue.push(item)
addToSyncQueue(q, item) == Append(q, item)

\* queue.filter(item => item.id !== itemId)
removeFromSyncQueue(q, itemId) == SelectSeq(q, LAMBDA e : e.id # itemId)

\* The array a service publishes: the records not deleted locally.
Ativos(coll) == [u \in {x \in DOMAIN coll : ~coll[x].deletedLocally} |-> coll[u]]

EmptyColl == [u \in {} |-> 0]

\* ---------------------------------------------------------------- state
VARIABLES
    store,          \* persisted collections: kind -> (uuid -> record)
    view,           \* the array each service publishes (listar): kind -> (uuid -> record)
    queue,          \* persisted 'sync_queue'
    nextUuid,       \* uuids handed out so far (generateUUID for records)
    nextQid,        \* ids handed out so far (generateUUID for queue entries)
    clock,          \* the local clock read by now()
    authenticated,  \* auth data (token) present in the storage
    syncState,      \* SyncService.syncState: isOnline, isSyncing, pendingCount, error
    pc,             \* position of the running syncAll() ("idle" when none runs)
    passQueue,      \* the queue array read by uploadPendingChanges, not yet processed
    thrown,         \* the error the step just taken threw to its caller ("none" when it returned)
    failed          \* per id of a queued entry: the times its processing has failed so far
                    \* (it saturates at maxRetries; 0 for an id that is not in the queue)

vars == <<store, view, queue, nextUuid, nextQid, clock, authenticated, syncState,
          pc, passQueue, thrown, failed>>

NoRec == [none |-> TRUE]

Init ==
    /\ store = [k \in Kinds |-> EmptyColl]
    /\ view = [k \in Kinds |-> EmptyColl]
    /\ queue = <<>>
    /\ nextUuid = 0
    /\ nextQid = 0
    /\ clock = 0
    /\ authenticated = FALSE
    /\ syncState \in {[isOnline |-> o, isSyncing |-> FALSE, pendingCount |-> 0,
                       error |-> "null"] : o \in BOOLEAN}
    /\ pc = "idle"
    /\ passQueue = <<>>
    /\ thrown = "none"
    /\ failed = [q \in 1..MaxQid |-> 0]

\* ------------------------------------------------------ entity services
\* carregarMedicamentos / carregarDicas / carregarFaqs / carregarInteracoes:
\* publish the records of the stored collection that are not deleted locally.
\* carregarMinistra publishes them only while a client is logged in.
Carregar(k, st, auth) ==
    IF k = "ministra" /\ ~auth THEN EmptyColl ELSE Ativos(st[k])

QueueItem(id, entity, uuid, operation, data) ==
    [id |-> id, entity |-> entity, uuid |-> uuid, operation |-> operation,
     data |-> data, retries |-> 0, maxRetries |-> maxRetries]

\* A payload that is the whole local record.
PayloadWhole(k, rec) == rec

\* The remote-shaped payload of a record.
Payload(k, rec) ==
    IF k = "ministra" THEN [horario |-> rec.horario]
    ELSE Pick(rec, DomainFields(k))

\* MedicamentoService.criar, DicaService.criar
Criar(k, dto) ==
    /\ k \in OfflineKinds
    /\ nextUuid < MaxUuid
    /\ nextQid < MaxQid
    /\ LET u == nextUuid + 1
           q == nextQid + 1
           rec == Spread(createBaseModel(u, PENDING_CREATE, clock), dto)
           st == [store EXCEPT ![k] = setInCollection(@, u, rec)]
       IN /\ store' = st
          /\ queue' = addToSyncQueue(queue, QueueItem(q, k, u, "create", Payload(k, rec)))
          /\ view' = [view EXCEPT ![k] = Carregar(k, st, authenticated)]
          /\ nextUuid' = u
          /\ nextQid' = q
          /\ thrown' = "none"
    /\ UNCHANGED <<clock, authenticated, syncState, pc, passQueue, failed>>

\* { ...record, ...dados, ...markAsUpdated(record) }
Atualizado(rec, dados, ts) == Spread(Spread(rec, dados), markAsUpdated(rec, ts))

\* MedicamentoService.editar, DicaService.editar, MinistraService.editar
Editar(k, u, dados) ==
    /\ k \in OfflineKinds \cup {"ministra"}
    /\ IF u \notin DOMAIN store[k]
       THEN /\ thrown' = "none"
            /\ UNCHANGED <<store, view, queue, nextQid>>
       ELSE LET rec == store[k][u]
                atualizado == Atualizado(rec, dados, clock)
                st == [store EXCEPT ![k] = setInCollection(@, u, atualizado)]
            IN /\ (Truthy(rec.serverId) => nextQid < MaxQid)
               /\ store' = st
               /\ IF Truthy(rec.serverId)
                  THEN /\ queue' = addToSyncQueue(queue,
                              QueueItem(nextQid + 1, k, u, "update", Payload(k, atualizado)))
                       /\ nextQid' = nextQid + 1
                  ELSE UNCHANGED <<queue, nextQid>>
               /\ view' = [view EXCEPT ![k] = Carregar(k, st, authenticated)]
               /\ thrown' = "none"
    /\ UNCHANGED <<nextUuid, clock, authenticated, syncState, pc, passQueue,
                   failed>>

\* MedicamentoService.deletar, DicaService.deletar, MinistraService.deletar
Deletar(k, u) ==
    /\ k \in OfflineKinds \cup {"ministra"}
    /\ IF u \notin DOMAIN store[k]
       THEN /\ thrown' = "none"
            /\ UNCHANGED <<store, view, queue, nextQid>>
       ELSE LET rec == store[k][u]
                deletado == markAsDeleted(rec, clock)
                kept == [store EXCEPT ![k] = setInCollection(@, u, deletado)]
                st == IF Truthy(rec.serverId) THEN kept
                      ELSE [kept EXCEPT ![k] = removeFromCollection(@, u)]
            IN /\ (Truthy(rec.serverId) => nextQid < MaxQid)
               /\ store' = st
               /\ IF Truthy(rec.serverId)
                  THEN /\ queue' = addToSyncQueue(queue,
                              QueueItem(nextQid + 1, k, u, "delete", NoRec))
                       /\ nextQid' = nextQid + 1
                  ELSE UNCHANGED <<queue, nextQid>>
               /\ view' = [view EXCEPT ![k] = Carregar(k, st, authenticated)]
               /\ thrown' = "none"
    /\ UNCHANGED <<nextUuid, clock, authenticated, syncState, pc, passQueue,
                   failed>>

\* A deletar that reports success whatever the uuid.
ReturnsTrue(k, u) == TRUE

\* What deletar returns: false for an unknown uuid, true otherwise.
DeletarReturns(k, u) == u \in DOMAIN store[k]

\* What editar returns: null for an unknown uuid, the updated record otherwise.
EditarReturns(k, u, dados) ==
    IF u \notin DOMAIN store[k] THEN Null ELSE Atualizado(store[k][u], dados, clock)

\* now() advances with the wall clock.
Tick ==
    /\ clock < MaxClock
    /\ clock' = clock + 1
    /\ thrown' = "none"
    /\ UNCHANGED <<store, view, queue, nextUuid, nextQid, authenticated, syncState,
                   pc, passQueue, failed>>

\* ------------------------------------------------------ remote payloads
MaxSnap == 1

\* The key under which the remote names the identifier of a record of each
\* kind (the key the converters read: api.idmedicamento, api.idministra, ...).
IdField(k) ==
    CASE k = "medicamento" -> "idmedicamento"
      [] k = "ministra"    -> "idministra"
      [] k = "dica"        -> "iddica"
      [] k = "faq"         -> "idfaq"

\* One record of GET /{entity}: its identifier, its fields and the time the
\* server stamped on it (api.updatedAt || api.createdAt).
ApiRecords(k) ==
    CASE k = "medicamento" ->
            [idmedicamento : ServerIds, nome : RemoteVals, classe : RemoteVals, updatedAt : Times]
      [] k = "ministra" ->
            [idministra : ServerIds, medicamento_idmedicamento : ServerIds,
             horario : RemoteVals, updatedAt : Times]
      [] k = "dica" -> [iddica : ServerIds, texto : RemoteVals, updatedAt : Times]
      [] k = "faq" -> [idfaq : ServerIds, pergunta : RemoteVals, updatedAt : Times]
      [] k = "interacao" ->
            {r \in [idmedicamento1 : ServerIds, idmedicamento2 : ServerIds,
                    descricao : RemoteVals, updatedAt : Times] :
                r.idmedicamento1 < r.idmedicamento2}

\* The primary key of a remote record.
ApiKey(k, r) ==
    IF k = "interacao" THEN <<r.idmedicamento1, r.idmedicamento2>>
    ELSE <<r[IdField(k)]>>

\* The remote collections a GET may answer: at most MaxSnap records, no key twice.
Snapshots(k) ==
    {<<>>} \cup
    UNION {{s \in [1..n -> ApiRecords(k)] :
               \A i, j \in 1..n : i # j => ApiKey(k, s[i]) # ApiKey(k, s[j])}
           : n \in 1..MaxSnap}

\* The longest array of administrations passed to one mesclarDoServidor call.
MaxBatch == 2

\* The remote collections of at most n records, no key twice.
SnapshotsOf(k, n) ==
    {<<>>} \cup
    UNION {{s \in [1..m -> ApiRecords(k)] :
               \A i, j \in 1..m : i # j => ApiKey(k, s[i]) # ApiKey(k, s[j])}
           : m \in 1..n}

\* ------------------------------------------------------ mesclarDoServidor
\* Each merge returns the collection to store and the uuids handed out.
Merged(coll, nu) == [coll |-> coll, nu |-> nu]

RECURSIVE MedicamentoMerge(_, _, _, _)
MedicamentoMerge(locais, snap, nu, ts) ==
    IF snap = <<>> THEN Merged(locais, nu)
    ELSE LET apiMed == Head(snap)
             ex == FindByServerId(locais, apiMed.idmedicamento)
         IN IF ex # Null
            THEN LET existente == locais[ex]
                     atualizado == Spread(existente,
                         [nome |-> apiMed.nome, classe |-> apiMed.classe,
                          serverUpdatedAt |-> apiMed.updatedAt])
                 IN IF apiMed.updatedAt > existente.updatedAt
                       /\ existente.syncStatus = SYNCED
                    THEN MedicamentoMerge(setInCollection(locais, ex, atualizado),
                                          Tail(snap), nu, ts)
                    ELSE MedicamentoMerge(locais, Tail(snap), nu, ts)
            ELSE LET novoLocal == Spread(createBaseModel(nu + 1, SYNCED, ts),
                         [serverId |-> apiMed.idmedicamento, nome |-> apiMed.nome,
                          classe |-> apiMed.classe,
                          serverUpdatedAt |-> apiMed.updatedAt])
                 IN MedicamentoMerge(setInCollection(locais, nu + 1, novoLocal),
                                     Tail(snap), nu + 1, ts)

\* { ...(existingLocal || createBaseModel()), serverId, <fields>, SYNCED, ... }
dicaApiToLocal(api, base) ==
    Spread(base, [serverId |-> api.iddica, texto |-> api.texto,
                  syncStatus |-> SYNCED, serverUpdatedAt |-> api.updatedAt])

faqApiToLocal(api, base) ==
    Spread(base, [serverId |-> api.idfaq, pergunta |-> api.pergunta,
                  syncStatus |-> SYNCED, serverUpdatedAt |-> api.updatedAt])

interacaoApiToLocal(api, med1Uuid, med2Uuid, base) ==
    Spread(base, [serverIds |-> <<api.idmedicamento1, api.idmedicamento2>>,
                  serverId |-> 0,
                  medicamento1_uuid |-> med1Uuid, medicamento2_uuid |-> med2Uuid,
                  descricao |-> api.descricao,
                  syncStatus |-> SYNCED, serverUpdatedAt |-> api.updatedAt])

RECURSIVE DicaMerge(_, _, _, _)
DicaMerge(locais, snap, nu, ts) ==
    IF snap = <<>> THEN Merged(locais, nu)
    ELSE LET apiDica == Head(snap)
             ex == FindByServerId(locais, apiDica.iddica)
         IN IF ex # Null
            THEN LET existente == locais[ex]
                 IN IF apiDica.updatedAt > existente.updatedAt
                       /\ existente.syncStatus = SYNCED
                    THEN DicaMerge(setInCollection(locais, ex,
                                       dicaApiToLocal(apiDica, existente)),
                                   Tail(snap), nu, ts)
                    ELSE DicaMerge(locais, Tail(snap), nu, ts)
            ELSE DicaMerge(setInCollection(locais, nu + 1,
                               dicaApiToLocal(apiDica,
                                   createBaseModel(nu + 1, PENDING_CREATE, ts))),
                           Tail(snap), nu + 1, ts)

\* new Map(atuais.map(f => [f.serverId, f])).get(sid): the last listed record
\* with that serverId, Null when there is none.
MapGet(atuais, sid) ==
    LET hits == {u \in DOMAIN atuais : atuais[u].serverId = sid}
    IN IF hits = {} THEN Null ELSE Max(hits)

\* FaqService.mesclarDoServidor: atuais is the published array read at entry.
RECURSIVE FaqMerge(_, _, _, _, _)
FaqMerge(coll, atuais, snap, nu, ts) ==
    IF snap = <<>> THEN Merged(coll, nu)
    ELSE LET apiFaq == Head(snap)
             ex == MapGet(atuais, apiFaq.idfaq)
         IN IF ex # Null
            THEN FaqMerge(setInCollection(coll, ex, faqApiToLocal(apiFaq, atuais[ex])),
                          atuais, Tail(snap), nu, ts)
            ELSE FaqMerge(setInCollection(coll, nu + 1,
                              faqApiToLocal(apiFaq,
                                  createBaseModel(nu + 1, PENDING_CREATE, ts))),
                          atuais, Tail(snap), nu + 1, ts)

\* A lookup that answers the last listed medication whatever the id.
AnyListed(medicamentos, id) ==
    IF DOMAIN medicamentos = {} THEN Null ELSE Max(DOMAIN medicamentos)

\* mapIdToUuid.get(id): the uuid of the last listed medication with that
\* (truthy) serverId, Null when there is none.
MapIdToUuid(medicamentos, id) ==
    LET hits == {u \in DOMAIN medicamentos :
                    Truthy(medicamentos[u].serverId) /\ medicamentos[u].serverId = id}
    IN IF hits = {} THEN Null ELSE Max(hits)

\* mapAtuais.get(`${id1}-${id2}`)
MapGetIds(atuais, ids) ==
    LET hits == {u \in DOMAIN atuais : atuais[u].serverIds = ids}
    IN IF hits = {} THEN Null ELSE Max(hits)

\* InteracaoService.mesclarDoServidor
RECURSIVE InteracaoMerge(_, _, _, _, _, _)
InteracaoMerge(coll, atuais, medicamentos, snap, nu, ts) ==
    IF snap = <<>> THEN Merged(coll, nu)
    ELSE LET api == Head(snap)
             med1Uuid == MapIdToUuid(medicamentos, api.idmedicamento1)
             med2Uuid == MapIdToUuid(medicamentos, api.idmedicamento2)
             ex == MapGetIds(atuais, <<api.idmedicamento1, api.idmedicamento2>>)
         IN IF med1Uuid # Null /\ med2Uuid # Null
            THEN IF ex # Null
                 THEN InteracaoMerge(
                          setInCollection(coll, ex,
                              interacaoApiToLocal(api, med1Uuid, med2Uuid, atuais[ex])),
                          atuais, medicamentos, Tail(snap), nu, ts)
                 ELSE InteracaoMerge(
                          setInCollection(coll, nu + 1,
                              interacaoApiToLocal(api, med1Uuid, med2Uuid,
                                  createBaseModel(nu + 1, PENDING_CREATE, ts))),
                          atuais, medicamentos, Tail(snap), nu + 1, ts)
            ELSE InteracaoMerge(coll, atuais, medicamentos, Tail(snap), nu, ts)

\* MinistraService.mesclarDoServidor (the loop over apiData)
RECURSIVE MinistraMerge(_, _, _, _, _)
MinistraMerge(coll, medicamentos, snap, nu, ts) ==
    IF snap = <<>> THEN Merged(coll, nu)
    ELSE LET apiItem == Head(snap)
             med == FindByServerId(medicamentos, apiItem.medicamento_idmedicamento)
             ex == FindByServerId(coll, apiItem.idministra)
         IN IF med = Null
            THEN MinistraMerge(coll, medicamentos, Tail(snap), nu, ts)
            ELSE IF ex # Null
            THEN LET existente == coll[ex]
                     localTime == IF existente.serverUpdatedAt # Null
                                  THEN existente.serverUpdatedAt
                                  ELSE existente.updatedAt
                     atualizado == Spread(existente,
                         [horario |-> apiItem.horario, syncStatus |-> SYNCED,
                          serverUpdatedAt |-> apiItem.updatedAt])
                 IN IF apiItem.updatedAt > localTime
                    THEN MinistraMerge(setInCollection(coll, ex, atualizado),
                                       medicamentos, Tail(snap), nu, ts)
                    ELSE MinistraMerge(coll, medicamentos, Tail(snap), nu, ts)
            ELSE LET novo == Spread(createBaseModel(nu + 1, PENDING_CREATE, ts),
                         [serverId |-> apiItem.idministra, medicamento_uuid |-> med,
                          horario |-> apiItem.horario, syncStatus |-> SYNCED,
                          serverUpdatedAt |-> apiItem.updatedAt])
                 IN MinistraMerge(setInCollection(coll, nu + 1, novo),
                                  medicamentos, Tail(snap), nu + 1, ts)

\* mesclarDoServidor of the service of kind k applied in the state (st, vw):
\* the collection it leaves in the store and the uuids handed out.
MergeResult(k, st, vw, auth, snap, nu, ts) ==
    CASE k = "medicamento" -> MedicamentoMerge(st[k], snap, nu, ts)
      [] k = "dica"        -> DicaMerge(st[k], snap, nu, ts)
      [] k = "faq"         -> FaqMerge(st[k], vw[k], snap, nu, ts)
      [] k = "interacao"   -> InteracaoMerge(st[k], vw[k], vw["medicamento"], snap, nu, ts)
      [] k = "ministra"    -> IF auth
                              THEN MinistraMerge(st[k], vw["medicamento"], snap, nu, ts)
                              ELSE Merged(st[k], nu)

\* The early returns that leave the published array as it was.
MergeSkips(k, auth, snap) ==
    \/ k \in {"medicamento", "dica"} /\ snap = <<>>
    \/ k = "ministra" /\ ~auth

\* The published array after mesclarDoServidor.
MergeView(k, st, vw, auth, snap) ==
    IF MergeSkips(k, auth, snap) THEN vw[k] ELSE Carregar(k, st, auth)

\* mesclarDoServidor of the service of kind k, as an operation on the state.
Mesclar(k, snap) ==
    LET m == MergeResult(k, store, view, authenticated, snap, nextUuid, clock)
        st == [store EXCEPT ![k] = m.coll]
    IN /\ m.nu <= MaxUuid
       /\ store' = st
       /\ view' = [view EXCEPT ![k] = MergeView(k, st, view, authenticated, snap)]
       /\ nextUuid' = m.nu

\* MinistraService.mesclarDoServidor and DicaService.mesclarDoServidor are
\* public operations that the SyncService pass does not call.
MesclarDoServidor(k, snap) ==
    /\ k \in {"ministra", "dica"}
    /\ Mesclar(k, snap)
    /\ thrown' = "none"
    /\ UNCHANGED <<queue, nextQid, clock, authenticated, syncState, pc, passQueue,
                   failed>>

\* ----------------------------------------------------------- SyncService
\* A guard that looks at the connectivity only.
onlineOnly == syncState.isOnline

canSync == syncState.isOnline /\ ~syncState.isSyncing

\* What the services do when the auth state turns false: the arrays of the
\* services that watch isAuthenticated$ are emptied.
LoggedOutView(vw) ==
    [k \in Kinds |-> IF k \in {"medicamento", "dica", "ministra"}
                     THEN EmptyColl ELSE vw[k]]

\* What they do when it turns true: they load their arrays from the store.
LoggedInView(vw, st) ==
    [k \in Kinds |-> IF k \in {"medicamento", "dica", "ministra"}
                     THEN Carregar(k, st, TRUE) ELSE vw[k]]

\* The catch block of syncAll for the error of getHeaders: logout, then the
\* error is published and the pass is over.
AbortPass ==
    /\ authenticated' = FALSE
    /\ view' = LoggedOutView(view)
    /\ syncState' = [syncState EXCEPT !.isSyncing = FALSE,
                                      !.error = "Usuario nao autenticado"]
    /\ pc' = "idle"
    /\ passQueue' = <<>>

\* A pass that goes to the download phase with the queue entries unprocessed.
StartPassNoUpload(auth, vw) ==
    /\ authenticated' = auth
    /\ view' = vw
    /\ syncState' = [syncState EXCEPT !.isSyncing = TRUE, !.error = "null"]
    /\ pc' = "download"
    /\ passQueue' = queue

\* syncAll() from its entry to the first queue entry: the guard, the flag,
\* the read of the queue and getHeaders.  auth and vw are the auth state and
\* the published arrays when it is called.
StartPass(auth, vw) ==
    /\ IF queue # <<>> /\ ~auth
       THEN /\ authenticated' = FALSE
            /\ view' = LoggedOutView(vw)
            /\ syncState' = [syncState EXCEPT !.isSyncing = FALSE,
                                              !.error = "Usuario nao autenticado"]
            /\ pc' = "idle"
            /\ passQueue' = <<>>
       ELSE /\ authenticated' = auth
            /\ view' = vw
            /\ syncState' = [syncState EXCEPT !.isSyncing = TRUE, !.error = "null"]
            /\ pc' = IF queue = <<>> THEN "download" ELSE "upload"
            /\ passQueue' = queue

\* syncAll(), called by forceSyncNow or by the timer.
SyncAll ==
    /\ IF canSync
       THEN /\ StartPass(authenticated, view)
            /\ thrown' = "none"
       ELSE /\ thrown' = "none"
            /\ UNCHANGED <<authenticated, view, syncState, pc, passQueue>>
    /\ UNCHANGED <<store, queue, nextUuid, nextQid, clock, failed>>

\* The body of a successful POST answer: the identifier under the key of the kind.
CreateResponse(k, sid) == [f \in {IdField(k)} |-> sid]

\* response.id || response.idfaq || response.iddica
ResponseId(response) ==
    IF "id" \in DOMAIN response /\ Truthy(response["id"]) THEN response["id"]
    ELSE IF "idfaq" \in DOMAIN response /\ Truthy(response["idfaq"]) THEN response["idfaq"]
    ELSE IF "iddica" \in DOMAIN response THEN response["iddica"]
    ELSE Undefined

\* The body of the POST or PUT request that processing the entry sends: the
\* data of the entry, whatever the stored record holds by then.
RequestData(item, st) == item.data

\* Whether processing the entry sends a request: syncUpdate throws and
\* syncDelete returns before the request when the record has no serverId.
SendsRequest(item, st) ==
    \/ item.operation = "create"
    \/ /\ item.uuid \in DOMAIN st[item.entity]
       /\ Truthy(st[item.entity][item.uuid].serverId)

\* Whether processSyncQueueItem returns normally, the remote answering ok.
ItemSucceeds(item, st, ok) ==
    CASE item.operation = "create" -> ok
      [] item.operation = "update" -> SendsRequest(item, st) /\ ok
      [] item.operation = "delete" -> SendsRequest(item, st) => ok

\* syncCreate / syncUpdate / syncDelete on success: the collection afterwards.
SyncedCollection(item, coll, sid, ts) ==
    LET u == item.uuid
    IN CASE item.operation = "create" ->
                IF u \in DOMAIN coll
                THEN setInCollection(coll, u,
                         markAsSynced(coll[u], ResponseId(CreateResponse(item.entity, sid)), ts))
                ELSE coll
         [] item.operation = "update" ->
                setInCollection(coll, u, markAsSynced(coll[u], coll[u].serverId, ts))
         [] item.operation = "delete" -> removeFromCollection(coll, u)

\* One iteration of the loop of uploadPendingChanges.
UploadItem(ok, sid) ==
    /\ pc = "upload"
    /\ passQueue # <<>>
    /\ LET item == Head(passQueue)
           k == item.entity
           success == ItemSucceeds(item, store, ok)
           removed == success \/ item.retries + 1 >= item.maxRetries
       IN /\ store' = IF success
                      THEN [store EXCEPT ![k] = SyncedCollection(item, @, sid, clock)]
                      ELSE store
          /\ queue' = IF removed THEN removeFromSyncQueue(queue, item.id) ELSE queue
          /\ failed' = [failed EXCEPT ![item.id] =
                           IF removed THEN 0
                           ELSE IF @ < maxRetries THEN @ + 1 ELSE @]
          /\ thrown' = "none"
    /\ passQueue' = Tail(passQueue)
    /\ pc' = IF Tail(passQueue) = <<>> THEN "download" ELSE "upload"
    /\ UNCHANGED <<view, nextUuid, nextQid, clock, authenticated, syncState>>

\* One iteration of the loop of uploadPendingChanges, the remote accepting
\* the request, interleaved with a criar of the service of kind k: the
\* storage calls are awaited, and removeFromSyncQueue reads 'sync_queue'
\* before addToSyncQueue of the criar writes it and writes its filtered copy
\* after.  The record of the criar is stored; the array written last is the
\* one removeFromSyncQueue read, without the entry of the criar.
UploadItemDuringCriar(sid, k, dto) ==
    /\ pc = "upload"
    /\ passQueue # <<>>
    /\ k \in OfflineKinds
    /\ nextUuid < MaxUuid
    /\ nextQid < MaxQid
    /\ LET item == Head(passQueue)
           synced == [store EXCEPT ![item.entity] = SyncedCollection(item, @, sid, clock)]
           u == nextUuid + 1
           q == nextQid + 1
           rec == Spread(createBaseModel(u, PENDING_CREATE, clock), dto)
           st == [synced EXCEPT ![k] = setInCollection(@, u, rec)]
       IN /\ ItemSucceeds(item, store, TRUE)
          /\ store' = st
          /\ queue' = removeFromSyncQueue(queue, item.id)
          /\ view' = [view EXCEPT ![k] = Carregar(k, st, authenticated)]
          /\ nextUuid' = u
          /\ nextQid' = q
          /\ failed' = [failed EXCEPT ![item.id] = 0]
          /\ thrown' = "none"
    /\ passQueue' = Tail(passQueue)
    /\ pc' = IF Tail(passQueue) = <<>> THEN "download" ELSE "upload"
    /\ UNCHANGED <<clock, authenticated, syncState>>

\* One iteration of the loop of uploadPendingChanges on an 'update' entry,
\* the remote accepting the PUT, interleaved with an editar (op = "editar")
\* or a deletar (op = "deletar") of the record of the entry: syncUpdate reads
\* localItem before it awaits the PUT, the service writes the record and
\* publishes its array while the PUT is pending, and syncUpdate then stores
\* markAsSynced(localItem) under the uuid.
UploadItemDuringWrite(sid, op, dados) ==
    /\ pc = "upload"
    /\ passQueue # <<>>
    /\ nextQid < MaxQid
    /\ LET item == Head(passQueue)
           k == item.entity
           u == item.uuid
       IN /\ item.operation = "update"
          /\ k \in OfflineKinds
          /\ ItemSucceeds(item, store, TRUE)
          /\ LET localItem == store[k][u]
                 written == IF op = "editar" THEN Atualizado(localItem, dados, clock)
                            ELSE markAsDeleted(localItem, clock)
                 entry == IF op = "editar"
                          THEN QueueItem(nextQid + 1, k, u, "update", Payload(k, written))
                          ELSE QueueItem(nextQid + 1, k, u, "delete", NoRec)
                 service == [store EXCEPT ![k] = setInCollection(@, u, written)]
             IN /\ store' = [service EXCEPT ![k] = setInCollection(@, u,
                                 markAsSynced(localItem, localItem.serverId, clock))]
                /\ view' = [view EXCEPT ![k] = Carregar(k, service, authenticated)]
                /\ queue' = removeFromSyncQueue(addToSyncQueue(queue, entry), item.id)
                /\ nextQid' = nextQid + 1
                /\ failed' = [failed EXCEPT ![item.id] = 0]
                /\ thrown' = "none"
    /\ passQueue' = Tail(passQueue)
    /\ pc' = IF Tail(passQueue) = <<>> THEN "download" ELSE "upload"
    /\ UNCHANGED <<nextUuid, clock, authenticated, syncState>>

\* A GET of the download phase: it fails (the error is only logged) or it
\* answers a collection, which is merged.
Fetch(k, answers) ==
    \/ /\ UNCHANGED <<store, view, nextUuid>>
       /\ thrown' = "none"
    \/ \E snap \in answers :
          /\ Mesclar(k, snap)
          /\ thrown' = "none"

\* downloadNewData up to downloadDicas: getHeaders, downloadMedicamentos, and
\* downloadMinistra and downloadDicas, which fetch and merge nothing.
DownloadMedicamentos(answers) ==
    /\ pc = "download"
    /\ IF ~authenticated
       THEN /\ AbortPass
            /\ thrown' = "none"
            /\ UNCHANGED <<store, nextUuid>>
       ELSE /\ Fetch("medicamento", answers)
            /\ pc' = "downloadFaqs"
            /\ UNCHANGED <<authenticated, syncState, passQueue>>
    /\ UNCHANGED <<queue, nextQid, clock, failed>>

DownloadFaqs(answers) ==
    /\ pc = "downloadFaqs"
    /\ Fetch("faq", answers)
    /\ pc' = "downloadInteracoes"
    /\ UNCHANGED <<queue, nextQid, clock, authenticated, syncState, passQueue,
                   failed>>

\* downloadInteracoes and the end of syncAll: the flag is cleared and
\* pendingCount is published as 0.
DownloadInteracoes(answers) ==
    /\ pc = "downloadInteracoes"
    /\ Fetch("interacao", answers)
    /\ pc' = "idle"
    /\ syncState' = [syncState EXCEPT !.isSyncing = FALSE, !.pendingCount = 0]
    /\ UNCHANGED <<queue, nextQid, clock, authenticated, passQueue,
                   failed>>

\* The auth state and the published arrays after a request was answered 401:
\* the error reaches the caller as it is, or the AuthInterceptor, when it is
\* in the chain and cannot renew the token, calls AuthService.logout first.
Answered401(logsOut) ==
    /\ authenticated' = IF logsOut THEN FALSE ELSE authenticated
    /\ view' = IF logsOut THEN LoggedOutView(view) ELSE view

\* One iteration of the loop of uploadPendingChanges whose request the remote
\* answers 401: the error is caught by the catch block of the iteration.
UploadUnauthorized(logsOut) ==
    /\ pc = "upload"
    /\ passQueue # <<>>
    /\ SendsRequest(Head(passQueue), store)
    /\ LET item == Head(passQueue)
           removed == item.retries + 1 >= item.maxRetries
       IN /\ queue' = IF removed THEN removeFromSyncQueue(queue, item.id) ELSE queue
          /\ failed' = [failed EXCEPT ![item.id] =
                           IF removed THEN 0
                           ELSE IF @ < maxRetries THEN @ + 1 ELSE @]
    /\ Answered401(logsOut)
    /\ thrown' = "none"
    /\ passQueue' = Tail(passQueue)
    /\ pc' = IF Tail(passQueue) = <<>> THEN "download" ELSE "upload"
    /\ UNCHANGED <<store, nextUuid, nextQid, clock, syncState>>

\* A GET of the download phase that the remote answers 401: the error is
\* caught and logged by the download method and the phase goes on.
DownloadUnauthorized(logsOut) ==
    /\ \/ pc = "download" /\ authenticated
       \/ pc \in {"downloadFaqs", "downloadInteracoes"}
    /\ Answered401(logsOut)
    /\ thrown' = "none"
    /\ pc' = CASE pc = "download" -> "downloadFaqs"
              [] pc = "downloadFaqs" -> "downloadInteracoes"
              [] pc = "downloadInteracoes" -> "idle"
    /\ syncState' = IF pc = "downloadInteracoes"
                    THEN [syncState EXCEPT !.isSyncing = FALSE, !.pendingCount = 0]
                    ELSE syncState
    /\ UNCHANGED <<store, queue, nextUuid, nextQid, clock, passQueue, failed>>

\* The catch block of syncAll for the error of getHeaders when
\* AuthService.logout rejects (storage.remove of the auth data returns an
\* error): updateState is not reached and syncAll rejects with the flag set.
LogoutRejects ==
    /\ pc = "download"
    /\ ~authenticated
    /\ pc' = "idle"
    /\ passQueue' = <<>>
    /\ thrown' = "Erro de armazenamento"
    /\ UNCHANGED <<store, view, queue, nextUuid, nextQid, clock, authenticated,
                   syncState, failed>>

\* The 'online' and 'offline' events of the window.
GoOnline ==
    /\ syncState' = [syncState EXCEPT !.isOnline = TRUE, !.error = "null"]
    /\ thrown' = "none"
    /\ UNCHANGED <<store, view, queue, nextUuid, nextQid, clock, authenticated,
                   pc, passQueue, failed>>

GoOffline ==
    /\ syncState' = [syncState EXCEPT !.isOnline = FALSE]
    /\ thrown' = "none"
    /\ UNCHANGED <<store, view, queue, nextUuid, nextQid, clock, authenticated,
                   pc, passQueue, failed>>

\* A login: the auth state turns true, the services load their arrays and the
\* SyncService calls syncAll().
Login ==
    /\ ~authenticated
    /\ thrown' = "none"
    /\ IF canSync
       THEN StartPass(TRUE, LoggedInView(view, store))
       ELSE /\ authenticated' = TRUE
            /\ view' = LoggedInView(view, store)
            /\ UNCHANGED <<syncState, pc, passQueue>>
    /\ UNCHANGED <<store, queue, nextUuid, nextQid, clock, failed>>

\* AuthService.logout
Logout ==
    /\ authenticated
    /\ authenticated' = FALSE
    /\ view' = LoggedOutView(view)
    /\ thrown' = "none"
    /\ UNCHANGED <<store, queue, nextUuid, nextQid, clock, syncState, pc, passQueue,
                   failed>>

\* The arrays the services publish after the app has started: the FAQ and
\* interaction services load theirs in the constructor, the others when the
\* stored auth data makes the auth state true.
RestartView(st, auth) ==
    [k \in Kinds |-> IF k \in {"faq", "interacao"} THEN Ativos(st[k])
                     ELSE IF auth THEN Carregar(k, st, TRUE) ELSE EmptyColl]

\* The process stops while uploadPendingChanges processes an entry and the app
\* is started again from the storage.  The remote had accepted the request
\* (the answer carrying sid); written tells whether syncCreate, syncUpdate or
\* syncDelete had written the record back.  removeFromSyncQueue had not run.
\* The SyncService starts idle; syncAll() is called afterwards.
Crash(written, sid) ==
    /\ pc = "upload"
    /\ passQueue # <<>>
    /\ SendsRequest(Head(passQueue), store)
    /\ LET item == Head(passQueue)
           st == IF written
                 THEN [store EXCEPT ![item.entity] = SyncedCollection(item, @, sid, clock)]
                 ELSE store
       IN /\ store' = st
          /\ view' = RestartView(st, authenticated)
    /\ syncState' = [isOnline |-> syncState.isOnline, isSyncing |-> FALSE,
                     pendingCount |-> 0, error |-> "null"]
    /\ pc' = "idle"
    /\ passQueue' = <<>>
    /\ thrown' = "none"
    /\ UNCHANGED <<queue, nextUuid, nextQid, clock, authenticated, failed>>

\* The earlier MinistraService.criar: it looks no medication up and queues
\* the uuid of the medication.
MinistraCriarEarlier(cliente, mu, dto) ==
    /\ IF ~cliente
       THEN /\ thrown' = "UUID do cliente necessario"
            /\ UNCHANGED <<store, view, queue, nextUuid, nextQid>>
       ELSE LET u == nextUuid + 1
                q == nextQid + 1
                ministra == Spread(createBaseModel(u, PENDING_CREATE, clock),
                               [medicamento_uuid |-> mu, horario |-> dto.horario])
                syncData == [medicamento_uuid |-> mu, horario |-> ministra.horario]
                st == [store EXCEPT !["ministra"] = setInCollection(@, u, ministra)]
            IN /\ nextUuid < MaxUuid
               /\ nextQid < MaxQid
               /\ store' = st
               /\ queue' = addToSyncQueue(queue,
                               QueueItem(q, "ministra", u, "create", syncData))
               /\ view' = [view EXCEPT !["ministra"] =
                               Carregar("ministra", st, authenticated)]
               /\ nextUuid' = u
               /\ nextQid' = q
               /\ thrown' = "none"
    /\ UNCHANGED <<clock, authenticated, syncState, pc, passQueue, failed>>

\* MinistraService.criar: cliente is whether a cliente_uuid was passed.
MinistraCriar(cliente, mu, dto) ==
    /\ LET known == mu \in DOMAIN store["medicamento"]
           medicamento == store["medicamento"][mu]
       IN IF ~cliente \/ ~known \/ ~Truthy(medicamento.serverId)
          THEN /\ thrown' = IF ~cliente THEN "UUID do cliente necessario"
                            ELSE IF ~known THEN "Medicamento nao encontrado"
                            ELSE "Aguarde a sincronizacao do medicamento"
               /\ UNCHANGED <<store, view, queue, nextUuid, nextQid>>
          ELSE LET u == nextUuid + 1
                   q == nextQid + 1
                   ministra == Spread(createBaseModel(u, PENDING_CREATE, clock),
                                  [medicamento_uuid |-> mu, horario |-> dto.horario])
                   syncData == [medicamento_idmedicamento |-> medicamento.serverId,
                                horario |-> ministra.horario]
                   st == [store EXCEPT !["ministra"] = setInCollection(@, u, ministra)]
               IN /\ nextUuid < MaxUuid
                  /\ nextQid < MaxQid
                  /\ store' = st
                  /\ queue' = addToSyncQueue(queue,
                                  QueueItem(q, "ministra", u, "create", syncData))
                  /\ view' = [view EXCEPT !["ministra"] =
                                  Carregar("ministra", st, authenticated)]
                  /\ nextUuid' = u
                  /\ nextQid' = q
                  /\ thrown' = "none"
    /\ UNCHANGED <<clock, authenticated, syncState, pc, passQueue, failed>>

\* FaqService.criar (criarOnline): farmaceutico is whether the current user is
\* a pharmacist, reachable whether the remote answers the POST (with the new
\* identifier sid).
FaqCriar(farmaceutico, reachable, sid, dto) ==
    /\ IF ~farmaceutico \/ ~authenticated \/ ~reachable
       THEN /\ thrown' = IF ~farmaceutico THEN "Apenas farmaceuticos podem criar FAQs"
                         ELSE IF ~authenticated THEN "Erro ao criar FAQ."
                         ELSE "Sem conexao. Nao foi possivel criar a FAQ."
            /\ UNCHANGED <<store, view, nextUuid>>
       ELSE LET u == nextUuid + 1
                faq == Spread(createBaseModel(u, PENDING_CREATE, clock),
                           [serverId |-> sid, pergunta |-> dto.pergunta,
                            syncStatus |-> SYNCED])
                st == [store EXCEPT !["faq"] = setInCollection(@, u, faq)]
            IN /\ nextUuid < MaxUuid
               /\ store' = st
               /\ view' = [view EXCEPT !["faq"] = Carregar("faq", st, authenticated)]
               /\ nextUuid' = u
               /\ thrown' = "none"
    /\ UNCHANGED <<queue, nextQid, clock, authenticated, syncState, pc, passQueue,
                   failed>>

\* FaqService.editar (editarOnline)
FaqEditar(farmaceutico, reachable, u, dto) ==
    /\ IF u \notin DOMAIN store["faq"]
       THEN /\ thrown' = "none"
            /\ UNCHANGED <<store, view>>
       ELSE LET faq == store["faq"][u]
                atualizado == Spread(faq, [pergunta |-> dto.pergunta, updatedAt |-> clock])
                st == [store EXCEPT !["faq"] = setInCollection(@, u, atualizado)]
            IN IF ~farmaceutico \/ ~Truthy(faq.serverId) \/ ~authenticated \/ ~reachable
               THEN /\ thrown' = IF ~farmaceutico
                                 THEN "Apenas farmaceuticos podem editar FAQs"
                                 ELSE IF ~Truthy(faq.serverId) \/ ~authenticated
                                 THEN "Erro ao editar FAQ."
                                 ELSE "Sem conexao. Nao foi possivel editar a FAQ."
                    /\ UNCHANGED <<store, view>>
               ELSE /\ store' = st
                    /\ view' = [view EXCEPT !["faq"] = Carregar("faq", st, authenticated)]
                    /\ thrown' = "none"
    /\ UNCHANGED <<queue, nextUuid, nextQid, clock, authenticated, syncState, pc,
                   passQueue, failed>>

\* FaqService.deletar (deletarOnline)
FaqDeletar(farmaceutico, reachable, u) ==
    /\ IF u \notin DOMAIN store["faq"]
       THEN /\ thrown' = "none"
            /\ UNCHANGED <<store, view>>
       ELSE LET faq == store["faq"][u]
                st == [store EXCEPT !["faq"] = removeFromCollection(@, u)]
            IN IF ~farmaceutico \/ ~Truthy(faq.serverId) \/ ~authenticated \/ ~reachable
               THEN /\ thrown' = IF ~farmaceutico
                                 THEN "Apenas farmaceuticos podem deletar FAQs"
                                 ELSE IF ~Truthy(faq.serverId) \/ ~authenticated
                                 THEN "Erro ao deletar FAQ."
                                 ELSE "Sem conexao. Nao foi possivel deletar a FAQ."
                    /\ UNCHANGED <<store, view>>
               ELSE /\ store' = st
                    /\ view' = [view EXCEPT !["faq"] = Carregar("faq", st, authenticated)]
                    /\ thrown' = "none"
    /\ UNCHANGED <<queue, nextUuid, nextQid, clock, authenticated, syncState, pc,
                   passQueue, failed>>

\* MinistraService.registrarTomada:
\* { ...ministra, ultimaTomada: now(), ...markAsUpdated(ministra) }
RegistrarTomada(u) ==
    /\ IF u \notin DOMAIN store["ministra"]
       THEN UNCHANGED <<store, view>>
       ELSE LET ministra == store["ministra"][u]
                atualizado == Spread(Spread(ministra, [ultimaTomada |-> clock]),
                                     markAsUpdated(ministra, clock))
                st == [store EXCEPT !["ministra"] = setInCollection(@, u, atualizado)]
            IN /\ store' = st
               /\ view' = [view EXCEPT !["ministra"] =
                               Carregar("ministra", st, authenticated)]
    /\ thrown' = "none"
    /\ UNCHANGED <<queue, nextUuid, nextQid, clock, authenticated, syncState, pc,
                   passQueue, failed>>

\* The DTOs of criar (every field "a") and the partial DTOs of editar (some
\* fields, each set to "b"); the remote uses both values.
Dtos(k) == {[f \in DomainFields(k) |-> "a"]}
PartialDtos(k) == {[f \in fs |-> "b"] : fs \in (SUBSET DomainFields(k)) \ {{}}}

\* The user's calls on the services of the kinds K.
Crud(K) ==
    \/ \E k \in K \cap OfflineKinds : \E dto \in Dtos(k) : Criar(k, dto)
    \/ \E k \in K, u \in UUIDs : \E dados \in PartialDtos(k) : Editar(k, u, dados)
    \/ \E k \in K, u \in UUIDs : Deletar(k, u)

\* The steps in which the service of kind k writes its collection: its
\* criar, editar and deletar and its mesclarDoServidor.
ServiceWrites(k) ==
    \/ \E dto \in Dtos(k) : Criar(k, dto)
    \/ \E u \in UUIDs : \E dados \in PartialDtos(k) : Editar(k, u, dados)
    \/ \E u \in UUIDs : Deletar(k, u)
    \/ /\ k = "ministra"
       /\ \E cliente \in BOOLEAN, mu \in UUIDs : \E dto \in Dtos(k) :
             MinistraCriar(cliente, mu, dto)
    \/ /\ k = "faq"
       /\ \E farmaceutico, reachable \in BOOLEAN :
             \/ \E sid \in ServerIds : \E dto \in Dtos(k) :
                   FaqCriar(farmaceutico, reachable, sid, dto)
             \/ \E u \in UUIDs : \E dto \in PartialDtos(k) :
                   FaqEditar(farmaceutico, reachable, u, dto)
             \/ \E u \in UUIDs : FaqDeletar(farmaceutico, reachable, u)
    \/ \E snap \in Snapshots(k) : Mesclar(k, snap)

\* The events of the environment: time, connectivity, login and logout.
Environment ==
    \/ Tick
    \/ Login
    \/ Logout
    \/ GoOnline
    \/ GoOffline

\* The download phase against a remote whose collections are among med, faq
\* and int.
Downloads(med, faq, int) ==
    \/ DownloadMedicamentos(med)
    \/ DownloadFaqs(faq)
    \/ DownloadInteracoes(int)

\* downloadNewData from getHeaders to downloadDicas, the three GETs being
\* answered the collections med, min and dica: the medications are merged;
\* the answers of GET /ministra and GET /dica are counted in a log line only.
DownloadNewData(med, min, dica) ==
    /\ pc = "download"
    /\ authenticated
    /\ Mesclar("medicamento", med)
    /\ thrown' = "none"
    /\ pc' = "downloadFaqs"
    /\ UNCHANGED <<queue, nextQid, clock, authenticated, syncState, passQueue,
                   failed>>

\* downloadMedicamentos answered a non-empty collection, its merge interleaved
\* with a criar of the medication service: mesclarDoServidor reads the
\* collection into locais, the criar stores its record and enqueues its entry
\* while the merge awaits the storage, and the merge then writes locais back
\* with setCollection and publishes the array.
DownloadMedicamentosDuringCriar(snap, dto) ==
    /\ pc = "download"
    /\ authenticated
    /\ snap # <<>>
    /\ nextUuid < MaxUuid
    /\ nextQid < MaxQid
    /\ LET k == "medicamento"
           u == nextUuid + 1
           rec == Spread(createBaseModel(u, PENDING_CREATE, clock), dto)
           m == MergeResult(k, store, view, authenticated, snap, u, clock)
           st == [store EXCEPT ![k] = m.coll]
       IN /\ m.nu <= MaxUuid
          /\ store' = st
          /\ queue' = addToSyncQueue(queue,
                          QueueItem(nextQid + 1, k, u, "create", Payload(k, rec)))
          /\ view' = [view EXCEPT ![k] = Carregar(k, st, authenticated)]
          /\ nextUuid' = m.nu
          /\ nextQid' = nextQid + 1
    /\ thrown' = "none"
    /\ pc' = "downloadFaqs"
    /\ UNCHANGED <<clock, authenticated, syncState, passQueue, failed>>

\* The last iteration of the loop of uploadPendingChanges on the 'create'
\* entry of a medication followed by downloadMedicamentos: the remote answers
\* the POST {idmedicamento: sid}, an id no local record holds, and the GET
\* the collection snap, in which the record sid is.
UploadThenDownload(sid, snap) ==
    /\ pc = "upload"
    /\ passQueue # <<>>
    /\ Tail(passQueue) = <<>>
    /\ authenticated
    /\ \E i \in 1..Len(snap) : snap[i].idmedicamento = sid
    /\ LET item == Head(passQueue)
           k == "medicamento"
           uploaded == [store EXCEPT ![k] = SyncedCollection(item, @, sid, clock)]
           m == MergeResult(k, uploaded, view, authenticated, snap, nextUuid, clock)
           st == [uploaded EXCEPT ![k] = m.coll]
       IN /\ item.entity = k
          /\ item.operation = "create"
          /\ \A u \in DOMAIN store[k] : store[k][u].serverId # sid
          /\ m.nu <= MaxUuid
          /\ store' = st
          /\ view' = [view EXCEPT ![k] = MergeView(k, st, view, authenticated, snap)]
          /\ nextUuid' = m.nu
          /\ queue' = removeFromSyncQueue(queue, item.id)
          /\ failed' = [failed EXCEPT ![item.id] = 0]
    /\ thrown' = "none"
    /\ passQueue' = <<>>
    /\ pc' = "downloadFaqs"
    /\ UNCHANGED <<nextQid, clock, authenticated, syncState>>

\* The medication service and a SyncService whose uploads the remote
\* accepts; the remote holds medications, no FAQ and no interaction.
Next ==
    \/ Crud({"medicamento"})
    \/ Environment
    \/ SyncAll
    \/ \E sid \in ServerIds : UploadItem(TRUE, sid)
    \/ Downloads(Snapshots("medicamento"), {<<>>}, {<<>>})

Spec == Init /\ [][Next]_vars

\* The tip service, logged in once, and a SyncService whose uploads the
\* remote may refuse; the remote holds nothing to download.
NextRetry ==
    \/ Crud({"dica"})
    \/ Login
    \/ SyncAll
    \/ \E ok \in BOOLEAN, sid \in ServerIds : UploadItem(ok, sid)
    \/ Downloads({<<>>}, {<<>>}, {<<>>})

SpecRetry == Init /\ [][NextRetry]_vars

\* The MinistraService over medications that were created locally or
\* downloaded.
NextMinistra ==
    \/ \E dto \in Dtos("medicamento") : Criar("medicamento", dto)
    \/ \E cliente \in BOOLEAN, mu \in UUIDs : \E dto \in Dtos("ministra") :
          MinistraCriar(cliente, mu, dto)
    \/ Crud({"ministra"})
    \/ \E snap \in Snapshots("ministra") : MesclarDoServidor("ministra", snap)
    \/ Environment
    \/ SyncAll
    \/ \E sid \in ServerIds : UploadItem(TRUE, sid)
    \/ Downloads(Snapshots("medicamento"), {<<>>}, {<<>>})

SpecMinistra == Init /\ [][NextMinistra]_vars

\* MinistraService.criar over medications that were created locally or
\* downloaded, and the passes that upload what it enqueues.
NextCriar ==
    \/ \E dto \in Dtos("medicamento") : Criar("medicamento", dto)
    \/ \E cliente \in BOOLEAN, mu \in UUIDs : \E dto \in Dtos("ministra") :
          MinistraCriar(cliente, mu, dto)
    \/ Login
    \/ SyncAll
    \/ \E sid \in ServerIds : UploadItem(TRUE, sid)
    \/ Downloads(Snapshots("medicamento"), {<<>>}, {<<>>})

SpecCriar == Init /\ [][NextCriar]_vars

\* The merges of the five services at a local clock that stands still: the
\* download phase of the pass and the merges it does not call, over
\* medications that were downloaded and then deleted locally.
NextMerge ==
    \/ \E u \in UUIDs : Deletar("medicamento", u)
    \/ \E k \in {"ministra", "dica"} : \E snap \in Snapshots(k) : MesclarDoServidor(k, snap)
    \/ Login
    \/ SyncAll
    \/ \E sid \in ServerIds : UploadItem(TRUE, sid)
    \/ Downloads(Snapshots("medicamento"), Snapshots("faq"), Snapshots("interacao"))

SpecMerge == Init /\ [][NextMerge]_vars

\* The two offline-first services with criar (medication and tip) under a
\* clock that advances, one login, and the passes that upload what they
\* enqueue and download medications.
NextCrud ==
    \/ Crud(OfflineKinds)
    \/ Tick
    \/ Login
    \/ SyncAll
    \/ \E sid \in ServerIds : UploadItem(TRUE, sid)
    \/ Downloads(Snapshots("medicamento"), {<<>>}, {<<>>})

SpecCrud == Init /\ [][NextCrud]_vars

\* deletar of the medication, tip and administration services over records
\* that were created locally, uploaded or downloaded.
NextDeletar ==
    \/ \E k \in OfflineKinds : \E dto \in Dtos(k) : Criar(k, dto)
    \/ \E mu \in UUIDs : \E dto \in Dtos("ministra") : MinistraCriar(TRUE, mu, dto)
    \/ \E k \in OfflineKinds \cup {"ministra"}, u \in UUIDs : Deletar(k, u)
    \/ Login
    \/ SyncAll
    \/ \E sid \in ServerIds : UploadItem(TRUE, sid)
    \/ Downloads(Snapshots("medicamento"), {<<>>}, {<<>>})

SpecDeletar == Init /\ [][NextDeletar]_vars

\* The medication service called with uuids it may not hold, between calls
\* of MinistraService.criar that throw; the remote lists no medication.
NextNotFound ==
    \/ Crud({"medicamento"})
    \/ \E cliente \in BOOLEAN, mu \in UUIDs : \E dto \in Dtos("ministra") :
          MinistraCriar(cliente, mu, dto)
    \/ Login
    \/ SyncAll
    \/ \E sid \in ServerIds : UploadItem(TRUE, sid)
    \/ Downloads({<<>>}, {<<>>}, {<<>>})

SpecNotFound == Init /\ [][NextNotFound]_vars

\* The tip service and a SyncService whose requests the remote may answer
\* 401.
NextAuth ==
    \/ \E dto \in Dtos("dica") : Criar("dica", dto)
    \/ Login
    \/ SyncAll
    \/ \E sid \in ServerIds : UploadItem(TRUE, sid)
    \/ \E logsOut \in BOOLEAN : UploadUnauthorized(logsOut)
    \/ \E logsOut \in BOOLEAN : DownloadUnauthorized(logsOut)
    \/ Downloads({<<>>}, {<<>>}, {<<>>})

SpecAuth == Init /\ [][NextAuth]_vars

\* The tip service and passes that the process may not survive.
NextCrash ==
    \/ Crud({"dica"})
    \/ Login
    \/ SyncAll
    \/ \E sid \in ServerIds : UploadItem(TRUE, sid)
    \/ \E written \in BOOLEAN, sid \in ServerIds : Crash(written, sid)
    \/ Downloads({<<>>}, {<<>>}, {<<>>})

SpecCrash == Init /\ [][NextCrash]_vars

\* The merges that resolve a reference to a medication (administrations,
\* in arrays of up to MaxBatch records, and interactions), over medications
\* that were downloaded and may since have been deleted locally.
NextResolve ==
    \/ \E u \in UUIDs : Deletar("medicamento", u)
    \/ \E snap \in SnapshotsOf("ministra", MaxBatch) : MesclarDoServidor("ministra", snap)
    \/ Login
    \/ Logout
    \/ SyncAll
    \/ \E sid \in ServerIds : UploadItem(TRUE, sid)
    \/ Downloads(Snapshots("medicamento"), {<<>>}, Snapshots("interacao"))

SpecResolve == Init /\ [][NextResolve]_vars

\* The tip service and the passes of a SyncService whose storage may answer
\* the removal of the auth data with an error.
NextStorage ==
    \/ Crud({"dica"})
    \/ Login
    \/ Logout
    \/ GoOnline
    \/ GoOffline
    \/ SyncAll
    \/ \E ok \in BOOLEAN, sid \in ServerIds : UploadItem(ok, sid)
    \/ Downloads({<<>>}, {<<>>}, {<<>>})
    \/ LogoutRejects

SpecStorage == Init /\ [][NextStorage]_vars

\* The FAQ service used by pharmacists and other users, with a remote that
\* may be out of reach, next to the tip service and the passes that upload
\* what it enqueues.
NextFaq ==
    \/ \E farmaceutico, reachable \in BOOLEAN, sid \in ServerIds :
          \E dto \in Dtos("faq") : FaqCriar(farmaceutico, reachable, sid, dto)
    \/ \E farmaceutico, reachable \in BOOLEAN, u \in UUIDs :
          \E dto \in PartialDtos("faq") : FaqEditar(farmaceutico, reachable, u, dto)
    \/ \E farmaceutico, reachable \in BOOLEAN, u \in UUIDs :
          FaqDeletar(farmaceutico, reachable, u)
    \/ Crud({"dica"})
    \/ Login
    \/ GoOnline
    \/ GoOffline
    \/ SyncAll
    \/ \E sid \in ServerIds : UploadItem(TRUE, sid)
    \/ Downloads({<<>>}, {<<>>}, {<<>>})

SpecFaq == Init /\ [][NextFaq]_vars

\* MinistraService.registrarTomada on administrations that were created
\* locally or merged, under a clock that advances.
NextTomada ==
    \/ \E mu \in UUIDs : \E dto \in Dtos("ministra") : MinistraCriar(TRUE, mu, dto)
    \/ \E snap \in Snapshots("ministra") : MesclarDoServidor("ministra", snap)
    \/ \E u \in UUIDs : RegistrarTomada(u)
    \/ Tick
    \/ Login
    \/ SyncAll
    \/ \E sid \in ServerIds : UploadItem(TRUE, sid)
    \/ Downloads(Snapshots("medicamento"), {<<>>}, {<<>>})

SpecTomada == Init /\ [][NextTomada]_vars

\* The tip service called while a pass uploads: its calls run between the
\* iterations of the upload loop or inside one of them.
NextRace ==
    \/ Crud({"dica"})
    \/ Login
    \/ SyncAll
    \/ \E ok \in BOOLEAN, sid \in ServerIds : UploadItem(ok, sid)
    \/ \E sid \in ServerIds : \E dto \in Dtos("dica") :
          UploadItemDuringCriar(sid, "dica", dto)
    \/ Downloads({<<>>}, {<<>>}, {<<>>})

SpecRace == Init /\ [][NextRace]_vars

\* The medication service called while a pass downloads: its criar runs
\* between the steps of the pass or inside the merge of the medications.
NextMergeRace ==
    \/ Crud({"medicamento"})
    \/ Login
    \/ SyncAll
    \/ \E sid \in ServerIds : UploadItem(TRUE, sid)
    \/ \E snap \in Snapshots("medicamento") : \E dto \in Dtos("medicamento") :
          DownloadMedicamentosDuringCriar(snap, dto)
    \/ Downloads(Snapshots("medicamento"), {<<>>}, {<<>>})

SpecMergeRace == Init /\ [][NextMergeRace]_vars

\* The tip service called while a pass uploads an 'update' entry: its editar
\* and deletar run between the iterations of the loop or inside syncUpdate.
NextWriteBack ==
    \/ Crud({"dica"})
    \/ Tick
    \/ Login
    \/ SyncAll
    \/ \E sid \in ServerIds : UploadItem(TRUE, sid)
    \/ \E sid \in ServerIds, op \in {"editar", "deletar"} :
          \E dados \in PartialDtos("dica") : UploadItemDuringWrite(sid, op, dados)
    \/ Downloads({<<>>}, {<<>>}, {<<>>})

SpecWriteBack == Init /\ [][NextWriteBack]_vars

\* The medication service and the passes of a SyncService against a remote
\* that lists, in the download, the record a create of the pass made.
NextUnique ==
    \/ Crud({"medicamento"})
    \/ Login
    \/ SyncAll
    \/ \E sid \in ServerIds : UploadItem(TRUE, sid)
    \/ \E sid \in ServerIds : \E snap \in Snapshots("medicamento") :
          UploadThenDownload(sid, snap)
    \/ Downloads(Snapshots("medicamento"), {<<>>}, {<<>>})

SpecUnique == Init /\ [][NextUnique]_vars

\* ================================================================ claims

\* C1. Identity invariant: no stored record of any kind is SYNCED while its
\* serverId is null or absent.
IdentityInvariant ==
    \A k \in Kinds : \A u \in DOMAIN store[k] :
        store[k][u].syncStatus = SYNCED => store[k][u].serverId \notin {Null, Undefined}

\* C2. Create round trip: when the upload of a medication's create entry is
\* answered {idmedicamento: sid}, the record of that uuid is SYNCED afterwards
\* and its serverId is sid.
CreateRoundTrip ==
    [][\A sid \in ServerIds :
         (/\ UploadItem(TRUE, sid)
          /\ Head(passQueue).operation = "create"
          /\ Head(passQueue).entity = "medicamento"
          /\ Head(passQueue).uuid \in DOMAIN store["medicamento"])
         => LET u == Head(passQueue).uuid
            IN /\ u \in DOMAIN store'["medicamento"]
               /\ store'["medicamento"][u].syncStatus = SYNCED
               /\ store'["medicamento"][u].serverId = sid]_vars

\* C3. Pending-wins: a merge of any service leaves the domain fields and the
\* syncStatus of every record that is not SYNCED as they were.
PendingWins ==
    [][\A k \in Kinds :
         (\/ /\ k \in {"ministra", "dica"}
             /\ \E snap \in Snapshots(k) : MesclarDoServidor(k, snap)
          \/ k = "medicamento" /\ DownloadMedicamentos(Snapshots(k))
          \/ k = "faq" /\ DownloadFaqs(Snapshots(k))
          \/ k = "interacao" /\ DownloadInteracoes(Snapshots(k)))
         => \A u \in DOMAIN store[k] :
               store[k][u].syncStatus # SYNCED
               => /\ u \in DOMAIN store'[k]
                  /\ store'[k][u].syncStatus = store[k][u].syncStatus
                  /\ Pick(store'[k][u], DomainFields(k)) = Pick(store[k][u], DomainFields(k))]_vars

\* C4. Retry exhaustion: an entry whose processing has failed maxRetries
\* times is no longer in the persisted queue.
RetryExhaustion ==
    \A i \in 1..Len(queue) : failed[queue[i].id] < maxRetries

\* C5. Queue FIFO: the queue holds its entries in the order they were issued
\* and a pass processes them in that order; an enqueue appends at the tail, a
\* removal keeps the order of the others, each upload step takes the oldest
\* entry the pass has left, and no create entry of a record stands behind
\* another entry of that record.
QueueFIFO ==
    /\ [](/\ \A i, j \in 1..Len(queue) : i < j => queue[i].id < queue[j].id
          /\ \A i, j \in 1..Len(passQueue) : i < j => passQueue[i].id < passQueue[j].id
          /\ \A i \in 1..Len(passQueue) : \E j \in 1..Len(queue) : queue[j] = passQueue[i]
          /\ \A i, j \in 1..Len(queue) :
                (i < j /\ queue[i].entity = queue[j].entity /\ queue[i].uuid = queue[j].uuid)
                => queue[j].operation # "create")
    /\ [][/\ Len(queue') > Len(queue)
             => /\ queue' = Append(queue, queue'[Len(queue')])
                /\ queue'[Len(queue')].id = nextQid'
                /\ nextQid' = nextQid + 1
          /\ Len(queue') < Len(queue)
             => /\ passQueue # <<>>
                /\ queue' = SelectSeq(queue, LAMBDA e : e.id # Head(passQueue).id)
          /\ (pc = "upload" /\ passQueue' # passQueue)
             => /\ passQueue' = Tail(passQueue)
                /\ \A i \in 1..Len(passQueue') : Head(passQueue).id < passQueue'[i].id]_vars

\* A pass has processed the update entry of a record, which failed and stays
\* queued, and is about to send the delete entry issued after it.
QueueFIFOWitness ==
    /\ Len(queue) = 2
    /\ queue[1].uuid = queue[2].uuid
    /\ queue[1].operation = "update"
    /\ queue[2].operation = "delete"
    /\ failed[queue[1].id] = 1
    /\ pc = "upload"
    /\ passQueue = <<queue[2]>>

\* C6. Idempotent merge: in every state, merging a snapshot a second time
\* (at once or later) after merging it leaves the collection, the uuids
\* handed out and the published array as the first merge left them.
IdempotentMerge ==
    \A k \in Kinds : \A snap \in Snapshots(k) : \A ts \in clock..MaxClock :
        LET m1 == MergeResult(k, store, view, authenticated, snap, nextUuid, clock)
            st1 == [store EXCEPT ![k] = m1.coll]
            vw1 == [view EXCEPT ![k] = MergeView(k, st1, view, authenticated, snap)]
            m2 == MergeResult(k, st1, vw1, authenticated, snap, m1.nu, ts)
            st2 == [st1 EXCEPT ![k] = m2.coll]
            vw2 == [vw1 EXCEPT ![k] = MergeView(k, st2, vw1, authenticated, snap)]
        IN m2 = m1 /\ vw2 = vw1

\* Two passes have downloaded two medications with different serverIds, both
\* created by the merge and both published: a snapshot naming either is
\* merged into a collection that knows it, and an interaction between them
\* finds both.
IdempotentMergeWitness ==
    \E u, v \in DOMAIN view["medicamento"] :
        /\ u # v
        /\ store["medicamento"][u].serverId \in ServerIds
        /\ store["medicamento"][v].serverId \in ServerIds
        /\ store["medicamento"][u].serverId # store["medicamento"][v].serverId
        /\ store["medicamento"][u].serverUpdatedAt # Null
        /\ store["medicamento"][v].serverUpdatedAt # Null

\* C7. Soft-delete round trip: as long as the delete entry of a record is in
\* the queue, the record is in the stored collection with deletedLocally true
\* and PENDING_DELETE, and it is not in the published array.
SoftDeleteRoundTrip ==
    \A i \in 1..Len(queue) :
        queue[i].operation = "delete"
        => LET k == queue[i].entity
               u == queue[i].uuid
           IN /\ u \in DOMAIN store[k]
              /\ store[k][u].deletedLocally
              /\ store[k][u].syncStatus = PENDING_DELETE
              /\ u \notin DOMAIN view[k]

EditarMergesFields ==
    [][\A k \in OfflineKinds \cup {"ministra"}, u \in UUIDs : \A dados \in PartialDtos(k) :
         (Editar(k, u, dados) /\ u \in DOMAIN store[k])
         => LET antes == store[k][u]
                depois == store'[k][u]
            IN /\ \A f \in DOMAIN dados : depois[f] = dados[f]
               /\ \A f \in DomainFields(k) \ DOMAIN dados : depois[f] = antes[f]
               /\ depois.updatedAt = clock
               /\ Len(queue') > Len(queue)
                  => \A f \in DOMAIN dados : queue'[Len(queue')].data[f] = dados[f]]_vars

\* C10. editar moves a SYNCED record to PENDING_UPDATE and leaves every other
\* syncStatus as it was; it appends one update entry when the record has a
\* serverId and none when it has not.
EditarStatus ==
    [][\A k \in OfflineKinds \cup {"ministra"}, u \in UUIDs : \A dados \in PartialDtos(k) :
         (Editar(k, u, dados) /\ u \in DOMAIN store[k])
         => LET antes == store[k][u]
            IN /\ store'[k][u].syncStatus =
                     IF antes.syncStatus = SYNCED THEN PENDING_UPDATE ELSE antes.syncStatus
               /\ IF antes.serverId \notin {Null, Undefined}
                  THEN /\ Len(queue') = Len(queue) + 1
                       /\ queue'[Len(queue')].operation = "update"
                       /\ queue'[Len(queue')].uuid = u
                  ELSE queue' = queue]_vars

\* C11. criar(dto) of the medication and of the tip service hands out a uuid
\* no collection holds, stores under it a record that is PENDING_CREATE with
\* serverId null, createdAt = updatedAt and the fields of the DTO, appends
\* exactly one create entry for that uuid (retries 0, maxRetries 3) whose
\* payload holds the remote-shaped fields and nothing else, publishes the
\* record in the array of the service, and leaves the SyncService as it was
\* (no pass is started, no request is issued).
CriarContract ==
    [][\A k \in OfflineKinds : \A dto \in Dtos(k) :
         Criar(k, dto)
         => LET u == nextUuid'
                rec == store'[k][u]
                e == queue'[Len(queue')]
            IN /\ \A j \in Kinds : u \notin DOMAIN store[j]
               /\ store' = [store EXCEPT ![k] = setInCollection(@, u, rec)]
               /\ rec.uuid = u
               /\ rec.syncStatus = PENDING_CREATE
               /\ rec.serverId = Null
               /\ rec.createdAt = rec.updatedAt
               /\ rec.updatedAt = clock
               /\ Pick(rec, DomainFields(k)) = dto
               /\ queue' = Append(queue, e)
               /\ e.entity = k /\ e.uuid = u /\ e.operation = "create"
               /\ e.retries = 0 /\ e.maxRetries = 3
               /\ DOMAIN e.data = DomainFields(k)
               /\ e.data = dto
               /\ \A i \in 1..Len(queue) : queue[i].id # e.id
               /\ u \in DOMAIN view'[k] /\ view'[k][u] = rec
               /\ UNCHANGED <<syncState, pc, passQueue, authenticated>>]_vars

\* criar of the medication service and then criar of the tip service were
\* called at a later time: both records are stored, published and queued.
CriarContractWitness ==
    /\ Len(queue) = 2
    /\ queue[1].entity = "medicamento" /\ queue[1].operation = "create"
    /\ queue[2].entity = "dica" /\ queue[2].operation = "create"
    /\ queue[2].uuid \in DOMAIN view["dica"]
    /\ store["dica"][queue[2].uuid].syncStatus = PENDING_CREATE
    /\ store["dica"][queue[2].uuid].createdAt = 1
    /\ queue[1].uuid \in DOMAIN view["medicamento"]

\* C12. deletar(uuid) of a stored record returns true; when the record has a
\* serverId it stays in the store with deletedLocally true and PENDING_DELETE
\* and exactly one delete entry for it is appended to the queue; when it has
\* none it is removed from the store and the queue is left as it was.  Either
\* way the record is no longer published.
DeletarContract ==
    [][\A k \in OfflineKinds \cup {"ministra"}, u \in UUIDs :
         (Deletar(k, u) /\ u \in DOMAIN store[k])
         => LET antes == store[k][u]
            IN /\ DeletarReturns(k, u) = TRUE
               /\ u \notin DOMAIN view'[k]
               /\ IF antes.serverId \notin {Null, Undefined}
                  THEN /\ store' = [store EXCEPT ![k] = setInCollection(@, u, store'[k][u])]
                       /\ store'[k][u].deletedLocally
                       /\ store'[k][u].syncStatus = PENDING_DELETE
                       /\ Pick(store'[k][u], DomainFields(k) \cup {"uuid", "serverId"})
                             = Pick(antes, DomainFields(k) \cup {"uuid", "serverId"})
                       /\ Len(queue') = Len(queue) + 1
                       /\ queue' = Append(queue, queue'[Len(queue')])
                       /\ queue'[Len(queue')].operation = "delete"
                       /\ queue'[Len(queue')].entity = k
                       /\ queue'[Len(queue')].uuid = u
                  ELSE /\ store' = [store EXCEPT ![k] = removeFromCollection(@, u)]
                       /\ queue' = queue]_vars

\* deletar has soft-deleted a downloaded medication (its delete entry is the
\* last of the queue) after deletar purged an administration that was never
\* uploaded (its create entry is still queued and its record is gone).
DeletarContractWitness ==
    /\ Len(queue) = 2
    /\ queue[1].entity = "ministra" /\ queue[1].operation = "create"
    /\ queue[1].uuid \notin DOMAIN store["ministra"]
    /\ queue[2].entity = "medicamento" /\ queue[2].operation = "delete"
    /\ queue[2].uuid \in DOMAIN store["medicamento"]
    /\ store["medicamento"][queue[2].uuid].syncStatus = PENDING_DELETE

\* C13. NotFound is a value: editar of a uuid the collection does not hold
\* returns null, deletar of such a uuid returns false, neither throws, and
\* both leave the stored collections, the queue and the published arrays
\* exactly as they were.
NotFoundIsAValue ==
    [][\A k \in OfflineKinds \cup {"ministra"}, u \in UUIDs :
         u \notin DOMAIN store[k]
         => /\ Deletar(k, u)
               => /\ DeletarReturns(k, u) = FALSE
                  /\ thrown' = "none"
                  /\ UNCHANGED <<store, queue, view>>
            /\ \A dados \in PartialDtos(k) :
                  Editar(k, u, dados)
                  => /\ EditarReturns(k, u, dados) = Null
                     /\ thrown' = "none"
                     /\ UNCHANGED <<store, queue, view>>]_vars

\* A uuid was handed out to a medication that deletar has purged since: its
\* create entry is queued, the collection does not hold it, and editar and
\* deletar of it find nothing while another record is stored and published.
NotFoundIsAValueWitness ==
    /\ Len(queue) = 2
    /\ queue[1].entity = "medicamento"
    /\ queue[1].uuid \notin DOMAIN store["medicamento"]
    /\ queue[2].uuid \in DOMAIN store[queue[2].entity]
    /\ queue[2].uuid \in DOMAIN view[queue[2].entity]

\* C14. Last-writer-wins: when the merge of the medication, tip or
\* administration service finds the local counterpart of a remote record by
\* serverId, the remote record is applied (the domain fields and
\* serverUpdatedAt become the remote ones) if the remote updatedAt is strictly
\* greater than the local serverUpdatedAt and the local record is SYNCED, and
\* the local record is left unchanged otherwise.
LastWriterWins ==
    \A k \in {"medicamento", "dica", "ministra"} : \A snap \in Snapshots(k) :
        (/\ Len(snap) = 1
         /\ k = "ministra"
            => /\ authenticated
               /\ FindByServerId(view["medicamento"], snap[1].medicamento_idmedicamento) # Null
         /\ FindByServerId(store[k], snap[1][IdField(k)]) # Null)
        => LET api == snap[1]
               ex == FindByServerId(store[k], api[IdField(k)])
               antes == store[k][ex]
               depois == MergeResult(k, store, view, authenticated, snap, nextUuid, clock).coll[ex]
           IN IF api.updatedAt > antes.serverUpdatedAt /\ antes.syncStatus = SYNCED
              THEN /\ Pick(depois, DomainFields(k)) = Pick(api, DomainFields(k))
                   /\ depois.serverUpdatedAt = api.updatedAt
              ELSE depois = antes

\* C15. syncAll() is skipped when the device is offline or a pass is running:
\* the call changes nothing (the call made by the authentication event only
\* loads the arrays).  isSyncing is true exactly while a pass is in progress,
\* the flag is only raised by a call made online while no pass runs, and no
\* call of syncAll() made during a pass touches the position, the queue copy
\* or the observable state of that pass: at most one pass is in progress.
SinglePass ==
    /\ [](pc # "idle" <=> syncState.isSyncing)
    /\ [][/\ (~canSync /\ SyncAll)
             => UNCHANGED <<store, view, queue, nextUuid, nextQid, clock,
                            authenticated, syncState, pc, passQueue, failed>>
          /\ (~canSync /\ Login)
             => UNCHANGED <<store, queue, syncState, pc, passQueue>>
          /\ (pc # "idle" /\ (SyncAll \/ Login))
             => UNCHANGED <<syncState, pc, passQueue>>
          /\ (~syncState.isSyncing /\ syncState'.isSyncing)
             => pc = "idle" /\ syncState.isOnline]_vars

\* A pass is uploading while the device has gone offline and a call of
\* MinistraService.criar has just thrown: syncAll() called now is skipped on
\* both counts.
SinglePassWitness ==
    /\ pc = "upload"
    /\ syncState.isSyncing
    /\ ~syncState.isOnline
    /\ thrown # "none"

\* C16. When the remote call of the entry a pass is processing fails, that
\* entry stays in the persisted queue with its retry count one higher (or
\* leaves it, the count having reached maxRetries), every other entry is
\* left as it was, the pass goes on to the next entry or, after the last one,
\* to the download phase, and the observable state shows no error.
UploadFailureIsolated ==
    [][\A sid \in ServerIds :
         (/\ UploadItem(FALSE, sid)
          /\ SendsRequest(Head(passQueue), store))
         => LET item == Head(passQueue)
                counted == [i \in 1..Len(queue) |->
                               IF queue[i].id = item.id
                               THEN [queue[i] EXCEPT !.retries = @ + 1]
                               ELSE queue[i]]
            IN /\ queue' = IF item.retries + 1 >= item.maxRetries
                           THEN removeFromSyncQueue(queue, item.id)
                           ELSE counted
               /\ store' = store
               /\ passQueue' = Tail(passQueue)
               /\ pc' = IF Tail(passQueue) = <<>> THEN "download" ELSE "upload"
               /\ syncState'.isSyncing
               /\ syncState'.error = "null"]_vars

\* C17. A 401 answer to a request of the upload phase or of the download
\* phase logs the user out at once and aborts the pass: no entry and no
\* download of the pass is left to attempt, isSyncing is false and the
\* observable state carries an error.
UnauthorizedAborts ==
    [][\A logsOut \in BOOLEAN :
         (UploadUnauthorized(logsOut) \/ DownloadUnauthorized(logsOut))
         => /\ ~authenticated'
            /\ pc' = "idle"
            /\ passQueue' = <<>>
            /\ ~syncState'.isSyncing
            /\ syncState'.error # "null"]_vars

\* C18. editar of a record that is PENDING_CREATE and whose create entry is
\* still queued appends no entry, and from then on the create request that
\* processing that entry sends carries the values the edit wrote.
CreateCarriesLatest ==
    [][\A k \in OfflineKinds, u \in UUIDs : \A dados \in PartialDtos(k) :
         (/\ Editar(k, u, dados)
          /\ u \in DOMAIN store[k]
          /\ store[k][u].syncStatus = PENDING_CREATE
          /\ \E i \in 1..Len(queue) :
                queue[i].entity = k /\ queue[i].uuid = u /\ queue[i].operation = "create")
         => /\ Len(queue') = Len(queue)
            /\ \A i \in 1..Len(queue') :
                  (queue'[i].entity = k /\ queue'[i].uuid = u /\ queue'[i].operation = "create")
                  => \A f \in DOMAIN dados : RequestData(queue'[i], store')[f] = dados[f]]_vars

\* C19. Re-drain after a crash is idempotent: a create request is sent only
\* for a record that no earlier request has created on the remote, so the
\* record of the entry a pass is about to POST is never SYNCED and never
\* holds a serverId.
RedrainIdempotent ==
    [][\A sid \in ServerIds :
         (/\ UploadItem(TRUE, sid)
          /\ Head(passQueue).operation = "create"
          /\ Head(passQueue).uuid \in DOMAIN store[Head(passQueue).entity])
         => LET rec == store[Head(passQueue).entity][Head(passQueue).uuid]
            IN /\ rec.syncStatus # SYNCED
               /\ rec.serverId = Null]_vars

DownloadMergesAll ==
    [][\A med \in Snapshots("medicamento"), min \in Snapshots("ministra"),
          dica \in Snapshots("dica") :
          DownloadNewData(med, min, dica)
          => /\ \A i \in 1..Len(med) : \E u \in DOMAIN store'["medicamento"] :
                    store'["medicamento"][u].serverId = med[i].idmedicamento
             /\ \A i \in 1..Len(min) : \E u \in DOMAIN store'["ministra"] :
                    /\ store'["ministra"][u].serverId = min[i].idministra
                    /\ store'["ministra"][u].syncStatus = SYNCED
             /\ \A i \in 1..Len(dica) : \E u \in DOMAIN store'["dica"] :
                    /\ store'["dica"][u].serverId = dica[i].iddica
                    /\ store'["dica"][u].syncStatus = SYNCED]_vars

\* The uuids of the stored medications whose serverId is sid.
MedsWithServerId(st, sid) ==
    {u \in DOMAIN st["medicamento"] : st["medicamento"][u].serverId = sid}

\* The uuids of the stored administrations whose serverId is sid.
MinistrasOf(st, sid) ==
    {u \in DOMAIN st["ministra"] : st["ministra"][u].serverId = sid}

\* The uuids of the stored interactions of the pair ids.
InteracoesOf(st, ids) ==
    {u \in DOMAIN st["interacao"] : st["interacao"][u].serverIds = ids}

AutoSyncTriggers ==
    [][/\ (Login /\ canSync)
          => \/ syncState'.isSyncing
             \/ syncState'.error = "Usuario nao autenticado"
       /\ (GoOnline /\ ~syncState.isOnline /\ ~syncState.isSyncing)
          => \/ syncState'.isSyncing
             \/ syncState'.error = "Usuario nao autenticado"]_vars

\* C24. A pass always ends with the flag cleared: whenever no syncAll() is
\* running, isSyncing is false (a flag left set when the pass is over would
\* stay set, every later syncAll() returning at its guard).
PassEndsCleared == pc = "idle" => ~syncState.isSyncing

\* C25. Read-your-writes within a service: when criar returns, the array the
\* service publishes holds the new record with the fields of the DTO; when
\* editar of a stored record that is not deleted locally returns, the array
\* holds that record with the fields of dados; when deletar returns, the
\* array no longer holds the record.
ReadYourWrites ==
    [][/\ \A k \in OfflineKinds : \A dto \in Dtos(k) :
            Criar(k, dto)
            => /\ nextUuid' \in DOMAIN view'[k]
               /\ \A f \in DOMAIN dto : view'[k][nextUuid'][f] = dto[f]
       /\ \A k \in OfflineKinds, u \in UUIDs : \A dados \in PartialDtos(k) :
            (/\ Editar(k, u, dados)
             /\ u \in DOMAIN store[k]
             /\ ~store[k][u].deletedLocally)
            => /\ u \in DOMAIN view'[k]
               /\ \A f \in DOMAIN dados : view'[k][u][f] = dados[f]
       /\ \A k \in OfflineKinds, u \in UUIDs :
            Deletar(k, u) => u \notin DOMAIN view'[k]]_vars

\* C26. CRUD is never blocked on sync health: criar, editar and deletar of
\* the tip service, and of the FAQ service called by a logged-in pharmacist
\* on a record it holds, return normally and take effect on the local store
\* whatever the connectivity and the state of the pass, and also when the
\* remote cannot be reached.
CrudNeverBlocked ==
    [][/\ \A dto \in Dtos("dica") :
            Criar("dica", dto)
            => thrown' = "none" /\ nextUuid' \in DOMAIN store'["dica"]
       /\ \A u \in UUIDs : \A dados \in PartialDtos("dica") :
            (Editar("dica", u, dados) /\ u \in DOMAIN store["dica"])
            => thrown' = "none" /\ store'["dica"][u].updatedAt = clock
       /\ \A u \in UUIDs :
            (Deletar("dica", u) /\ u \in DOMAIN store["dica"])
            => /\ thrown' = "none"
               /\ u \in DOMAIN store'["dica"] => store'["dica"][u].deletedLocally
       /\ \A reachable \in BOOLEAN, sid \in ServerIds : \A dto \in Dtos("faq") :
            (FaqCriar(TRUE, reachable, sid, dto) /\ authenticated)
            => thrown' = "none" /\ nextUuid' \in DOMAIN store'["faq"]
       /\ \A reachable \in BOOLEAN, u \in UUIDs : \A dto \in PartialDtos("faq") :
            (FaqEditar(TRUE, reachable, u, dto) /\ authenticated
               /\ u \in DOMAIN store["faq"])
            => thrown' = "none" /\ store'["faq"][u].pergunta = dto.pergunta
       /\ \A reachable \in BOOLEAN, u \in UUIDs :
            (FaqDeletar(TRUE, reachable, u) /\ authenticated
               /\ u \in DOMAIN store["faq"])
            => thrown' = "none" /\ u \notin DOMAIN view'["faq"]]_vars

\* C27. Single-writer discipline: every step that changes the collection of
\* a kind is a step of that kind's entity service (its criar, editar,
\* deletar or mesclarDoServidor).
SingleWriter ==
    [][\A k \in Kinds : store'[k] # store[k] => ServiceWrites(k)]_vars

\* C28. registrarTomada(uuid) on a stored administration leaves the current
\* time in its ultimaTomada, on every call, and leaves the queue as it was.
RegistrarTomadaStores ==
    [][\A u \in UUIDs :
          (RegistrarTomada(u) /\ u \in DOMAIN store["ministra"])
          => /\ u \in DOMAIN store'["ministra"]
             /\ store'["ministra"][u].ultimaTomada = clock
             /\ queue' = queue]_vars

\* C29. uuid is the immutable primary local key: every record stored in a
\* collection under key u has uuid = u, and no step changes the uuid of a
\* record that is stored before and after it.
UuidIsKey ==
    /\ [](\A k \in Kinds : \A u \in DOMAIN store[k] : store[k][u].uuid = u)
    /\ [][\A k \in Kinds : \A u \in (DOMAIN store[k]) \cap (DOMAIN store'[k]) :
             store'[k][u].uuid = store[k][u].uuid]_vars

\* A downloaded medication has been edited while a medication created
\* locally has been uploaded and marked as synced.
UuidIsKeyWitness ==
    \E u, v \in DOMAIN store["medicamento"] :
        /\ u # v
        /\ Truthy(store["medicamento"][u].serverId)
        /\ store["medicamento"][u].syncStatus = PENDING_UPDATE
        /\ store["medicamento"][v].serverId = Undefined
        /\ store["medicamento"][v].syncStatus = SYNCED

\* The ids of the entries of a queue.
QueueIds(q) == {q[i].id : i \in 1..Len(q)}

\* C30. A queue entry is never lost: an entry enqueued in a step is in the
\* queue when the step is over, also when a removeFromSyncQueue runs at the
\* same time; and an entry leaves the queue only in the iteration of the
\* upload loop that processes it.
EntryNeverLost ==
    [][/\ \A q \in 1..MaxQid : (nextQid < q /\ q <= nextQid') => q \in QueueIds(queue')
       /\ \A q \in QueueIds(queue) \ QueueIds(queue') :
             pc = "upload" /\ passQueue # <<>> /\ Head(passQueue).id = q]_vars

\* C31. A record that criar stores while the download phase merges its
\* collection is not lost: in every step that puts a 'create' entry in the
\* queue, mesclarDoServidor running in the same step or not, the record of
\* the entry is in the stored collection afterwards.
MergeKeepsLocalWrites ==
    [][\A i \in 1..Len(queue') :
          (queue'[i].id \notin QueueIds(queue) /\ queue'[i].operation = "create")
              => queue'[i].uuid \in DOMAIN store'[queue'[i].entity]]_vars

\* C32. An editar or deletar made while the upload phase processes an entry
\* of the same record is not overwritten by the write-back of syncUpdate: in
\* every step that puts an 'update' or 'delete' entry in the queue, the stored
\* record afterwards is pending, carries the time of the call and is deleted
\* locally when the call was a deletar or the record was so before.
WriteBackKeepsLocalWrites ==
    [][\A i \in 1..Len(queue') :
          (queue'[i].id \notin QueueIds(queue)
           /\ queue'[i].operation \in {"update", "delete"})
              => LET e == queue'[i]
                 IN /\ e.uuid \in DOMAIN store'[e.entity]
                    /\ LET r == store'[e.entity][e.uuid]
                       IN /\ r.syncStatus = IF e.operation = "update"
                                            THEN PENDING_UPDATE ELSE PENDING_DELETE
                          /\ r.updatedAt = clock
                          /\ r.deletedLocally = (e.operation = "delete"
                                \/ store[e.entity][e.uuid].deletedLocally)]_vars

\* C33. A serverId is held by at most one stored record of a collection,
\* soft-deleted records included, and after a pass that uploads the create of
\* a record and then downloads the remote record made by it the collection
\* holds exactly one record for that remote record: the record of the entry
\* or the record whose serverId is the id the remote answered.
OneLocalPerRemote ==
    /\ [](\A k \in Kinds : \A u1, u2 \in DOMAIN store[k] :
             (Truthy(store[k][u1].serverId)
              /\ store[k][u1].serverId = store[k][u2].serverId) => u1 = u2)
    /\ [][\A sid \in ServerIds : \A snap \in Snapshots("medicamento") :
             UploadThenDownload(sid, snap)
                => Cardinality({u \in DOMAIN store'["medicamento"] :
                       \/ u = Head(passQueue).uuid
                       \/ store'["medicamento"][u].serverId = sid}) = 1]_vars

\* C34. A record created and deleted locally before any pass never reaches
\* the remote: whenever the upload loop sends the POST of a 'create' entry,
\* the record of the entry is in the stored collection.
DeletedNeverUploaded ==
    [][\A ok \in BOOLEAN, sid \in ServerIds :
          (/\ UploadItem(ok, sid)
           /\ Head(passQueue).operation = "create"
           /\ SendsRequest(Head(passQueue), store))
          => Head(passQueue).uuid \in DOMAIN store[Head(passQueue).entity]]_vars

\* C35. Whenever no pass is in progress, no queue entry targets the uuid of
\* a stored record that is SYNCED.
SyncedHasNoEntry ==
    pc = "idle" =>
        \A i \in 1..Len(queue) :
            queue[i].uuid \in DOMAIN store[queue[i].entity]
                => store[queue[i].entity][queue[i].uuid].syncStatus # SYNCED

\* C36. While no entry is dropped for exhausted retries, every stored record
\* whose status is PENDING_CREATE, PENDING_UPDATE or PENDING_DELETE has at
\* least one queue entry for its uuid.
PendingHasEntry ==
    \A k \in Kinds : \A u \in DOMAIN store[k] :
        store[k][u].syncStatus \in {PENDING_CREATE, PENDING_UPDATE, PENDING_DELETE}
            => \E i \in 1..Len(queue) : queue[i].entity = k /\ queue[i].uuid = u

\* C37. Convergence: when a pass whose uploads all succeeded and left the
\* queue empty has downloaded the medications med and the tips dica, every
\* SYNCED medication or tip that was stored before and whose serverId is that
\* of a downloaded record with a later server time has the domain fields of
\* that record.
Convergence ==
    [][\A med \in Snapshots("medicamento"), dica \in Snapshots("dica") :
          (DownloadNewData(med, <<>>, dica) /\ queue = <<>>)
          => /\ \A u \in DOMAIN store["medicamento"] : \A i \in 1..Len(med) :
                    LET r == store'["medicamento"][u]
                    IN (/\ r.syncStatus = SYNCED
                        /\ r.serverId = med[i].idmedicamento
                        /\ med[i].updatedAt > store["medicamento"][u].serverUpdatedAt
                        /\ med[i].updatedAt > store["medicamento"][u].updatedAt)
                       => Pick(r, DomainFields("medicamento"))
                              = Pick(med[i], DomainFields("medicamento"))
             /\ \A u \in DOMAIN store["dica"] : \A i \in 1..Len(dica) :
                    LET r == store'["dica"][u]
                    IN (/\ r.syncStatus = SYNCED
                        /\ r.serverId = dica[i].iddica
                        /\ dica[i].updatedAt > store["dica"][u].serverUpdatedAt
                        /\ dica[i].updatedAt > store["dica"][u].updatedAt)
                       => Pick(r, DomainFields("dica"))
                              = Pick(dica[i], DomainFields("dica"))]_vars

\* C38. Cache coherence after a pass: while the user is logged in and no pass
\* is running, the array each service publishes is the records of its stored
\* collection that are not deleted locally, with their stored serverId and
\* syncStatus.
ViewCoherent ==
    (pc = "idle" /\ authenticated)
        => \A k \in Kinds : view[k] = Carregar(k, store, authenticated)

\* C39. pendingCount is accurate after a pass: in the step in which a running
\* syncAll() ends, the published pendingCount is the number of entries of the
\* stored queue.
PendingCountAccurate ==
    [][(pc # "idle" /\ pc' = "idle") => syncState'.pendingCount = Len(queue')]_vars

====
